---- MODULE Spec2Model ----
(***************************************************************************)
(* Model of wgd/modeling.py: the weighted-to-unweighted resampler, the two *)
(* mixture-model entry points (mixture_model_bgmm, mixture_model_gmm) and  *)
(* kernel_density_estimation.                                              *)
(*                                                                         *)
(* Numbers: Ks values and the Ks_range bounds are fixed-point hundredths   *)
(* (200 stands for 2.0); weights are integers; the natural logarithm is    *)
(* the fixed-point table Ln.  Calls into sklearn / matplotlib are          *)
(* external: a fit either returns a model or raises, a criterion score is  *)
(* any value of Scores.                                                    *)
(***************************************************************************)
EXTENDS Integers, Sequences, FiniteSets, TLC

\* ---------------------------------------------------------------- bounds
MaxRows == 2
MaxWeight == 3
MaxN == 3
MaxScore == 2
MaxBandwidths == 2
MaxSurplus == 2

\* ------------------------------------------------------ program constants
SampleSize == 2000
KdeLo == 10
KdeHi == 500
KdeRedHi == 200

VARIABLES
    fn,          \* the function the caller invoked
    pc,          \* position inside that function
    data_frame,  \* sequence of rows [Ks, Weight, na]
    n_range, n, metric, Ks_range, log, plot, plot_save, output_dir, bandwidths,
    X,           \* the working vector
    models,      \* fitted models, in fitting order
    IC,          \* criterion score per model
    criterion,   \* which scoring method was applied to the models
    best,        \* the selected model
    i,           \* loop variable of the running fitting loop
    X_full, X_red,
    X_grid,      \* the cross-validation subsample, value -> multiplicity
    scored,      \* number of bandwidths the cross-validation scored
    failed_n,    \* component count (or bandwidth index + 1) whose fit raised
    prev_len,    \* caller's record of the previous resample: its length (-1: none)
    prev_min,    \* ... and the minimum weight of the frame it was made from
    status,      \* "running" | "returned" | "raised"
    exc          \* the exception that reached the caller

argvars == <<fn, data_frame, n_range, n, metric, Ks_range, log, plot, plot_save,
             output_dir, bandwidths>>
mixvars == <<models, IC, criterion, best>>
kdevars == <<X_full, X_red, X_grid, scored>>
prevvars == <<prev_len, prev_min>>
vars == <<argvars, pc, X, mixvars, i, kdevars, failed_n, prevvars, status, exc>>

\* ------------------------------------------------------------- helpers
Abs(a) == IF a < 0 THEN -a ELSE a

\* mutant: round(a / b) in place of int(a / b)
TruncDiv_Rounded(a, b) ==
    IF (a >= 0) = (b > 0) THEN (2 * Abs(a) + Abs(b)) \div (2 * Abs(b))
    ELSE -((2 * Abs(a) + Abs(b)) \div (2 * Abs(b)))

\* mutant: int(m / weight) in place of int(weight / m)
TruncDiv_Inverted(a, b) ==
    IF a = 0 THEN 0
    ELSE IF (a >= 0) = (b > 0) THEN Abs(b) \div Abs(a) ELSE -(Abs(b) \div Abs(a))

\* int(a / b) for b # 0: true division, then truncation toward zero
TruncDiv(a, b) ==
    IF (a >= 0) = (b > 0) THEN Abs(a) \div Abs(b) ELSE -(Abs(a) \div Abs(b))

\* [v] * times : a Python list repeated; a non-positive count gives []
Repeat(v, times) == IF times > 0 THEN [k \in 1..times |-> v] ELSE << >>

SeqMin(s) == CHOOSE a \in {s[k] : k \in 1..Len(s)} : \A k \in 1..Len(s) : a <= s[k]

NotNa(r) == ~r.na
dropna(df) == SelectSeq(df, NotNa)

WeightColumn(df) == [k \in 1..Len(df) |-> df[k].Weight]

\* the loop of weighted_to_unweighted, rows idx..Len(df), accumulating into l
RECURSIVE W2ULoop(_, _, _, _)
W2ULoop(df, m, idx, l) ==
    IF idx > Len(df) THEN l
    ELSE W2ULoop(df, m, idx + 1, l \o Repeat(df[idx].Ks, TruncDiv(df[idx].Weight, m)))

\* the exception weighted_to_unweighted raises on df, or "none"
W2URaises(df) ==
    LET d == dropna(df) IN
    IF Len(d) = 0 THEN "ValueError"                \* min() of an empty column
    ELSE IF SeqMin(WeightColumn(d)) # 0 THEN "none"
    ELSE IF d[1].Weight = 0 THEN "ValueError"      \* int(nan)
    ELSE "OverflowError"                           \* int(inf)

weighted_to_unweighted(df) ==
    LET d == dropna(df) IN W2ULoop(d, SeqMin(WeightColumn(d)), 1, << >>)

\* ------------------------------------------------------------- inputs
Rows(KsSet, WSet, NaSet) == [Ks : KsSet, Weight : WSet, na : NaSet]

Frames(RowSet, maxlen) == UNION {[1..len -> RowSet] : len \in 0..maxlen}

NoModel == [n_components |-> 0]

InitLocals ==
    /\ pc = "call"
    /\ X = << >>
    /\ models = << >>
    /\ IC = << >>
    /\ criterion = "none"
    /\ best = NoModel
    /\ i = 0
    /\ X_full = << >>
    /\ X_red = << >>
    /\ X_grid = << >>
    /\ scored = 0
    /\ failed_n = 0
    /\ prev_len = -1
    /\ prev_min = 0
    /\ status = "running"
    /\ exc = "none"

DefaultArgs ==
    /\ n_range = <<1, 1>>
    /\ n = 1
    /\ metric = "AIC"
    /\ Ks_range = <<10, 200>>
    /\ log = TRUE
    /\ plot = FALSE
    /\ plot_save = TRUE
    /\ output_dir = "./"
    /\ bandwidths = 1

Raise(e) ==
    /\ status' = "raised"
    /\ exc' = e
    /\ pc' = "done"

\* ------------------------------------------- weighted_to_unweighted alone
W2UKs == {100, 200}

InitW2U ==
    /\ fn = "weighted_to_unweighted"
    /\ data_frame \in Frames(Rows(W2UKs, (-MaxWeight)..MaxWeight, BOOLEAN), MaxRows)
    /\ DefaultArgs
    /\ InitLocals

W2U_Call ==
    /\ pc = "call"
    /\ fn = "weighted_to_unweighted"
    /\ IF W2URaises(data_frame) # "none"
       THEN /\ Raise(W2URaises(data_frame))
            /\ X' = X
       ELSE /\ X' = weighted_to_unweighted(data_frame)
            /\ status' = "returned"
            /\ pc' = "done"
            /\ exc' = exc
    /\ UNCHANGED <<argvars, mixvars, i, kdevars, failed_n, prevvars>>

\* the caller raises the weight of one row and resamples the new frame
W2U_Reweigh ==
    /\ pc = "done"
    /\ fn = "weighted_to_unweighted"
    /\ status = "returned"
    /\ \E r \in 1..Len(data_frame), w \in 1..MaxWeight :
          /\ w > data_frame[r].Weight
          /\ data_frame' = [data_frame EXCEPT ![r].Weight = w]
    /\ prev_len' = Len(X)
    /\ prev_min' = SeqMin(WeightColumn(dropna(data_frame)))
    /\ IF W2URaises(data_frame') # "none"
       THEN /\ Raise(W2URaises(data_frame'))
            /\ X' = << >>
       ELSE /\ X' = weighted_to_unweighted(data_frame')
            /\ UNCHANGED <<status, pc, exc>>
    /\ UNCHANGED <<fn, n_range, n, metric, Ks_range, log, plot, plot_save,
                   output_dir, bandwidths, mixvars, i, kdevars, failed_n>>

NextW2U == W2U_Call \/ W2U_Reweigh

SpecW2U == InitW2U /\ [][NextW2U]_vars

\* ------------------------------------ range filter and log transform
\* np.log on the fixed-point values in use: round(100 * ln(v / 100))
Ln(v) ==
    CASE v = 10  -> -230
      [] v = 50  -> -69
      [] v = 100 -> 0
      [] v = 200 -> 69
      [] v = 250 -> 92
      [] v = 500 -> 161

\* X = X[X < Ks_range[1]]; X = X[X > Ks_range[0]]
RangeFilter(s, range) ==
    LET below == SelectSeq(s, LAMBDA v : v < range[2])
    IN  SelectSeq(below, LAMBDA v : v > range[1])

LogTransform(s) == [k \in 1..Len(s) |-> Ln(s[k])]

\* mutant: the log transform applied before the range filter
FitVector_LogFirst(df, range, lg) ==
    LET resampled == weighted_to_unweighted(df)
    IN  IF lg THEN RangeFilter(LogTransform(resampled), range)
        ELSE RangeFilter(resampled, range)

\* the vector both mixture functions hand to the fitter
FitVector(df, range, lg) ==
    LET filtered == RangeFilter(weighted_to_unweighted(df), range)
    IN  IF lg THEN LogTransform(filtered) ELSE filtered

\* ------------------------------------------------ the mixture functions
MixFns == {"mixture_model_bgmm", "mixture_model_gmm"}
MixKs == {10, 50, 100, 200, 250}
MixWeights == {1, 2}
KsRanges == {<<10, 200>>, <<50, 250>>}
Metrics == {"AIC", "BIC", "HQIC"}
OutputDirs == {"None", "./"}
Scores == 0..MaxScore
FitOutcomes == {"fitted", "raises"}
DefaultFrame == <<[Ks |-> 100, Weight |-> 2, na |-> FALSE],
                  [Ks |-> 50, Weight |-> 1, na |-> FALSE]>>

\* either the data and the filter vary, or the fitting arguments do
InitMix ==
    /\ fn \in MixFns
    /\ InitLocals
    /\ bandwidths = 1
    /\ \/ /\ data_frame \in Frames(Rows(MixKs, MixWeights, {FALSE}), MaxRows)
          /\ Ks_range \in KsRanges
          /\ log \in BOOLEAN
          /\ n_range = <<1, 1>>
          /\ n = 1
          /\ metric = "AIC"
          /\ plot = FALSE
          /\ plot_save = TRUE
          /\ output_dir = "./"
       \/ /\ data_frame = DefaultFrame
          /\ Ks_range = <<10, 200>>
          /\ log = TRUE
          /\ IF fn = "mixture_model_bgmm"
             THEN /\ n_range \in {r \in (1..MaxN) \X (1..MaxN) : r[1] <= r[2]}
                  /\ n = 1
                  /\ metric = "AIC"
             ELSE /\ n_range = <<1, 1>>
                  /\ n \in 1..MaxN
                  /\ metric \in Metrics
          /\ plot \in BOOLEAN
          /\ plot_save \in BOOLEAN
          /\ output_dir \in OutputDirs

\* mutant: range(n_range[0], n_range[1]), the upper count left out
BGMM_LoopEnd_Exclusive == n_range[2]

\* range(n_range[0], n_range[1]+1) stops before this component count
BGMM_LoopEnd == n_range[2] + 1

\* lines 216-222: resample, filter, transform, start the loop at n_range[0]
BGMM_Prepare ==
    /\ pc = "call"
    /\ fn = "mixture_model_bgmm"
    /\ IF W2URaises(data_frame) # "none"
       THEN /\ Raise(W2URaises(data_frame))
            /\ UNCHANGED <<X, i>>
       ELSE /\ X' = FitVector(data_frame, Ks_range, log)
            /\ i' = n_range[1]
            /\ pc' = "fit"
            /\ UNCHANGED <<status, exc>>
    /\ UNCHANGED <<argvars, mixvars, kdevars, failed_n, prevvars>>

\* lines 223-228: one iteration of the loop; the fit returns a model or raises
BGMM_Fit ==
    /\ pc = "fit"
    /\ fn = "mixture_model_bgmm"
    /\ i < BGMM_LoopEnd
    /\ \E outcome \in FitOutcomes :
          IF outcome = "fitted"
          THEN /\ models' = Append(models, [n_components |-> i])
               /\ i' = i + 1
               /\ UNCHANGED <<pc, status, exc, failed_n>>
          ELSE /\ Raise("FitError")
               /\ failed_n' = i
               /\ UNCHANGED <<models, i>>
    /\ UNCHANGED <<argvars, X, IC, criterion, best, kdevars, prevvars>>

BGMM_LoopExit ==
    /\ pc = "fit"
    /\ fn = "mixture_model_bgmm"
    /\ ~(i < BGMM_LoopEnd)
    /\ pc' = "plot"
    /\ UNCHANGED <<argvars, X, mixvars, i, kdevars, failed_n, prevvars, status, exc>>

\* lines 333-342: resample, filter, transform, allocate the list of models
GMM_Prepare ==
    /\ pc = "call"
    /\ fn = "mixture_model_gmm"
    /\ IF W2URaises(data_frame) # "none"
       THEN /\ Raise(W2URaises(data_frame))
            /\ UNCHANGED <<X, i, models>>
       ELSE /\ X' = FitVector(data_frame, Ks_range, log)
            /\ models' = [k \in 1..n |-> NoModel]
            /\ i' = 0
            /\ pc' = "fit"
            /\ UNCHANGED <<status, exc>>
    /\ UNCHANGED <<argvars, IC, criterion, best, kdevars, failed_n, prevvars>>

\* lines 344-347: models[i] = GaussianMixture(n_components=N[i]).fit(X), N[i] = i + 1
GMM_Fit ==
    /\ pc = "fit"
    /\ fn = "mixture_model_gmm"
    /\ i < n
    /\ \E outcome \in FitOutcomes :
          IF outcome = "fitted"
          THEN /\ models' = [models EXCEPT ![i + 1] = [n_components |-> i + 1]]
               /\ i' = i + 1
               /\ UNCHANGED <<pc, status, exc, failed_n>>
          ELSE /\ Raise("FitError")
               /\ failed_n' = i + 1
               /\ UNCHANGED <<models, i>>
    /\ UNCHANGED <<argvars, X, IC, criterion, best, kdevars, prevvars>>

GMM_LoopExit ==
    /\ pc = "fit"
    /\ fn = "mixture_model_gmm"
    /\ ~(i < n)
    /\ pc' = "score"
    /\ UNCHANGED <<argvars, X, mixvars, i, kdevars, failed_n, prevvars, status, exc>>

\* np.argmin: one left-to-right pass keeping the first strictly smaller entry
RECURSIVE ArgMinScan(_, _, _)
ArgMinScan(s, k, at) ==
    IF k > Len(s) THEN at
    ELSE ArgMinScan(s, k + 1, IF s[k] < s[at] THEN k ELSE at)

\* mutant: the last index holding the minimum
argmin_LastMinimum(s) ==
    CHOOSE k \in 1..Len(s) :
        /\ \A j \in 1..Len(s) : s[k] <= s[j]
        /\ \A j \in (k + 1)..Len(s) : s[j] > s[k]

argmin(s) == ArgMinScan(s, 2, 1)

\* lines 349-355: score every model with aic or bic, keep the argmin
GMM_Score ==
    /\ pc = "score"
    /\ fn = "mixture_model_gmm"
    /\ \E s \in [1..Len(models) -> Scores] :
          /\ IC' = s
          /\ criterion' = IF metric = "AIC" THEN "aic" ELSE "bic"
          /\ IF Len(s) = 0
             THEN /\ Raise("ValueError")
                  /\ best' = best
             ELSE /\ best' = models[argmin(s)]
                  /\ pc' = "plot"
                  /\ UNCHANGED <<status, exc>>
    /\ UNCHANGED <<argvars, X, models, i, kdevars, failed_n, prevvars>>

\* lines 230-310 and 357-436: draw the figure; os.path.join(None, file) raises
Mix_Plot ==
    /\ pc = "plot"
    /\ fn \in MixFns
    /\ IF plot /\ plot_save /\ output_dir = "None"
       THEN Raise("TypeError")
       ELSE /\ pc' = "return"
            /\ UNCHANGED <<status, exc>>
    /\ UNCHANGED <<argvars, X, mixvars, i, kdevars, failed_n, prevvars>>

\* lines 312 and 438
Mix_Return ==
    /\ pc = "return"
    /\ fn \in MixFns
    /\ status' = "returned"
    /\ pc' = "done"
    /\ UNCHANGED <<argvars, X, mixvars, i, kdevars, failed_n, prevvars, exc>>

Next ==
    \/ BGMM_Prepare
    \/ BGMM_Fit
    \/ BGMM_LoopExit
    \/ GMM_Prepare
    \/ GMM_Fit
    \/ GMM_LoopExit
    \/ GMM_Score
    \/ Mix_Plot
    \/ Mix_Return

Spec == InitMix /\ [][Next]_vars

\* -------------------------------------------- kernel_density_estimation
KdeKs == {10, 200, 500, 501}
KdeWeights == {1, 1999, 2000}

InitKDE ==
    /\ fn = "kernel_density_estimation"
    /\ InitLocals
    /\ data_frame \in Frames(Rows(KdeKs, KdeWeights, {FALSE}), MaxRows)
    /\ W2URaises(data_frame) = "none"
          => Len(weighted_to_unweighted(data_frame)) <= SampleSize + MaxSurplus
    /\ bandwidths \in 1..MaxBandwidths
    /\ output_dir \in OutputDirs
    /\ n_range = <<1, 1>>
    /\ n = 1
    /\ metric = "AIC"
    /\ Ks_range = <<10, 200>>
    /\ log = TRUE
    /\ plot = FALSE
    /\ plot_save = TRUE

\* X_full = X[X > 0.1]; X_full = X_full[X_full <= 5]
FullDomain(s) ==
    LET above == SelectSeq(s, LAMBDA v : v > KdeLo)
    IN  SelectSeq(above, LAMBDA v : v <= KdeHi)

\* X_red = X_full[X_full <= 2]
ReducedDomain(s) == SelectSeq(s, LAMBDA v : v <= KdeRedHi)

Values(s) == {s[k] : k \in 1..Len(s)}
Occurrences(s, v) == Cardinality({k \in 1..Len(s) : s[k] = v})

RECURSIVE Total(_, _)
Total(S, b) ==
    IF S = {} THEN 0
    ELSE LET v == CHOOSE u \in S : TRUE IN b[v] + Total(S \ {v}, b)

Max(a, b) == IF a > b THEN a ELSE b
Min(a, b) == IF a < b THEN a ELSE b

\* mutant: k elements drawn with replacement
RECURSIVE Samples_WithReplacement(_, _, _)
Samples_WithReplacement(S, avail, k) ==
    IF S = {} THEN (IF k = 0 THEN {<< >>} ELSE {})
    ELSE LET v == CHOOSE u \in S : TRUE
             rest == S \ {v}
         IN  UNION {{g @@ (v :> c) : g \in Samples_WithReplacement(rest, avail, k - c)} :
                       c \in (IF rest = {} THEN k ELSE 0)..k}

\* random.sample(population, k): the multisets of k elements drawn without
\* replacement from a population holding avail[v] copies of each v in S
RECURSIVE Samples(_, _, _)
Samples(S, avail, k) ==
    IF S = {} THEN (IF k = 0 THEN {<< >>} ELSE {})
    ELSE LET v == CHOOSE u \in S : TRUE
             rest == S \ {v}
             others == Total(rest, avail)
         IN  UNION {{g @@ (v :> c) : g \in Samples(rest, avail, k - c)} :
                       c \in Max(0, k - others)..Min(avail[v], k)}

\* lines 120-132
KDE_Prepare ==
    /\ pc = "call"
    /\ fn = "kernel_density_estimation"
    /\ IF W2URaises(data_frame) # "none"
       THEN /\ Raise(W2URaises(data_frame))
            /\ UNCHANGED <<X, X_full, X_red, i>>
       ELSE /\ X' = weighted_to_unweighted(data_frame)
            /\ X_full' = FullDomain(X')
            /\ X_red' = ReducedDomain(X_full')
            /\ i' = 0
            /\ pc' = "kde_loop"
            /\ UNCHANGED <<status, exc>>
    /\ UNCHANGED <<argvars, mixvars, X_grid, scored, failed_n, prevvars>>

\* lines 134-176: the full-domain and reduced-domain fits at bandwidths[i]
KDE_Bandwidth ==
    /\ pc = "kde_loop"
    /\ fn = "kernel_density_estimation"
    /\ i < bandwidths
    /\ \E outcome \in FitOutcomes :
          IF outcome = "fitted"
          THEN /\ i' = i + 1
               /\ UNCHANGED <<pc, status, exc, failed_n>>
          ELSE /\ Raise("FitError")
               /\ failed_n' = i + 1
               /\ i' = i
    /\ UNCHANGED <<argvars, X, mixvars, kdevars, prevvars>>

KDE_LoopExit ==
    /\ pc = "kde_loop"
    /\ fn = "kernel_density_estimation"
    /\ ~(i < bandwidths)
    /\ pc' = "kde_cv"
    /\ UNCHANGED <<argvars, X, mixvars, i, kdevars, failed_n, prevvars, status, exc>>

\* lines 179-181: random.sample raises when the population is too small
KDE_CrossValidate ==
    /\ pc = "kde_cv"
    /\ fn = "kernel_density_estimation"
    /\ IF Len(X_full) < SampleSize
       THEN /\ Raise("ValueError")
            /\ UNCHANGED <<X_grid, scored>>
       ELSE /\ X_grid' \in Samples(Values(X_full),
                                    [v \in Values(X_full) |-> Occurrences(X_full, v)],
                                    SampleSize)
            /\ scored' = bandwidths
            /\ pc' = "kde_plot"
            /\ UNCHANGED <<status, exc>>
    /\ UNCHANGED <<argvars, X, mixvars, i, X_full, X_red, failed_n, prevvars>>

\* lines 183-194: the score curve, then savefig or show; the function ends
KDE_Finish ==
    /\ pc = "kde_plot"
    /\ fn = "kernel_density_estimation"
    /\ status' = "returned"
    /\ pc' = "done"
    /\ UNCHANGED <<argvars, X, mixvars, i, kdevars, failed_n, prevvars, exc>>

NextKDE ==
    \/ KDE_Prepare
    \/ KDE_Bandwidth
    \/ KDE_LoopExit
    \/ KDE_CrossValidate
    \/ KDE_Finish

SpecKDE == InitKDE /\ [][NextKDE]_vars

\* ------------------------------------------ claims: weighted_to_unweighted
Retained == dropna(data_frame)
AllPositive(df) == \A r \in 1..Len(df) : df[r].Weight > 0
MinWeight(df) == SeqMin(WeightColumn(df))

\* floor(weight / m) of row r, and the number of output places before row r
Copies(df, r) == df[r].Weight \div MinWeight(df)
RECURSIVE Offset(_, _)
Offset(df, r) == IF r <= 1 THEN 0 ELSE Offset(df, r - 1) + Copies(df, r - 1)

W2UDone == fn = "weighted_to_unweighted" /\ pc = "done"

\* C1: for a sample with no missing values and all weights positive,
\* weighted_to_unweighted returns the concatenation, in row order, of each
\* row's Ks value repeated floor(weight / m) times, m the minimum weight; a
\* row carrying the minimum weight appears exactly once.
C1_Concatenation ==
    (/\ W2UDone
     /\ Len(data_frame) > 0
     /\ Retained = data_frame
     /\ AllPositive(data_frame))
    => /\ status = "returned"
       /\ Len(X) = Offset(data_frame, Len(data_frame) + 1)
       /\ \A r \in 1..Len(data_frame) :
             /\ \A k \in 1..Copies(data_frame, r) :
                   X[Offset(data_frame, r) + k] = data_frame[r].Ks
             /\ data_frame[r].Weight = MinWeight(data_frame)
                   => Copies(data_frame, r) = 1

C1_Witness ==
    /\ W2UDone
    /\ status = "returned"
    /\ data_frame = <<[Ks |-> 100, Weight |-> 2, na |-> FALSE],
                      [Ks |-> 200, Weight |-> 1, na |-> FALSE]>>
    /\ X = <<100, 100, 200>>

\* C5: whenever the minimum weight among the retained rows is zero or
\* negative, weighted_to_unweighted fails with an error and returns no sample.
C5_NonPositiveMinRaises ==
    (/\ W2UDone
     /\ Len(Retained) > 0
     /\ MinWeight(Retained) <= 0)
    => status = "raised"

\* C8: for a sample with positive weights, increasing the weight of a single
\* row never makes the output of weighted_to_unweighted shorter, also when the
\* row carries the minimum weight.
C8_LengthMonotone ==
    (/\ W2UDone
     /\ status = "returned"
     /\ prev_len >= 0
     /\ prev_min > 0)
    => Len(X) >= prev_len

\* C8 as amended: the same, for an increase that leaves the minimum weight of
\* the retained rows unchanged.
C8_LengthMonotoneSameMin ==
    (/\ W2UDone
     /\ status = "returned"
     /\ prev_len >= 0
     /\ prev_min > 0
     /\ MinWeight(Retained) = prev_min)
    => Len(X) >= prev_len

C8_Witness ==
    /\ W2UDone
    /\ status = "returned"
    /\ prev_min > 0
    /\ MinWeight(Retained) = prev_min
    /\ prev_len >= 0
    /\ Len(X) > prev_len

\* ------------------------------------------------ claims: mixture functions
Prepared == fn \in MixFns /\ pc # "call" /\ W2URaises(data_frame) = "none"
InsideKsRange(v) == Ks_range[1] < v /\ v < Ks_range[2]
Kept == SelectSeq(weighted_to_unweighted(data_frame), InsideKsRange)
Resampled == weighted_to_unweighted(data_frame)

\* C2: the vector handed to the fitter is exactly the resampled values v with
\* Ks_range[0] < v < Ks_range[1], in their order (a value equal to a bound is
\* dropped); with log set each kept value is replaced by ln(v), the bounds
\* having been compared against the linear values.
C2_FilterThenLog ==
    Prepared
    => /\ Len(X) = Len(Kept)
       /\ \A k \in 1..Len(Kept) : X[k] = IF log THEN Ln(Kept[k]) ELSE Kept[k]

C2_Witness ==
    /\ Prepared
    /\ pc = "fit"
    /\ log
    /\ \E k \in 1..Len(Resampled) : Resampled[k] \in {Ks_range[1], Ks_range[2]}
    /\ \E k \in 1..Len(X) : ~InsideKsRange(X[k])

\* C3: for n_range = (K_min, K_max), 1 <= K_min <= K_max, mixture_model_bgmm
\* returns exactly K_max - K_min + 1 models, the i-th (from 0) having
\* K_min + i components.
C3_OneModelPerK ==
    (/\ fn = "mixture_model_bgmm"
     /\ status = "returned"
     /\ 1 <= n_range[1]
     /\ n_range[1] <= n_range[2])
    => /\ Len(models) = n_range[2] - n_range[1] + 1
       /\ \A k \in 1..Len(models) : models[k].n_components = n_range[1] + k - 1

C3_Witness ==
    /\ fn = "mixture_model_bgmm"
    /\ status = "returned"
    /\ n_range = <<2, 3>>
    /\ models = <<[n_components |-> 2], [n_components |-> 3]>>

\* C4: mixture_model_gmm returns one score per model for K = 1..n in
\* increasing-K order, and the best model is the one at the smallest index
\* whose score equals the minimum of IC.
C4_FirstMinimum ==
    (fn = "mixture_model_gmm" /\ status = "returned")
    => /\ Len(models) = n
       /\ Len(IC) = n
       /\ \A k \in 1..n : models[k].n_components = k
       /\ \E b \in 1..n :
             /\ best = models[b]
             /\ \A k \in 1..n : IC[b] <= IC[k]
             /\ \A k \in 1..(b - 1) : IC[k] > IC[b]

\* scores shaped like [120.5, 98.2, 110.0]: the second model is returned
C4_Witness ==
    /\ fn = "mixture_model_gmm"
    /\ status = "returned"
    /\ n = 3
    /\ IC[1] > IC[3]
    /\ IC[3] > IC[2]
    /\ best = [n_components |-> 2]

\* C6: called with a metric other than 'AIC' or 'BIC', mixture_model_gmm
\* raises a configuration error and scores the models under no criterion.
C6_UnknownMetricRejected ==
    (fn = "mixture_model_gmm" /\ metric \notin {"AIC", "BIC"})
    => /\ criterion = "none"
       /\ status # "returned"

\* C7: when the fit for some K fails after the fits for all lower K succeeded,
\* the lower-K models are still returned to the caller, with a marker for K.
C7_PartialFamilyReturned ==
    (/\ fn \in MixFns
     /\ pc = "done"
     /\ failed_n > 0
     /\ \E k \in 1..Len(models) : models[k] # NoModel)
    => status = "returned"

\* C9: once every fit of mixture_model_gmm has succeeded and the models are
\* scored, the call returns (models, IC, best) whatever plot, plot_save and
\* output_dir are.
C9_PlotNeverBlocksReturn ==
    (/\ fn = "mixture_model_gmm"
     /\ pc = "done"
     /\ failed_n = 0
     /\ criterion # "none")
    => status = "returned"

\* -------------------------------------- claims: kernel_density_estimation
InFullDomain(v) == 10 < v /\ v <= 500
FullData == SelectSeq(Resampled, InFullDomain)

\* C10: the cross-validation runs only after every per-bandwidth fit, on
\* exactly 2000 values drawn without replacement from the full-domain data
\* (0.1 < v <= 5); when that data holds fewer than 2000 values the call ends
\* in an error and no bandwidth is scored.
C10_CrossValidationSample ==
    (fn = "kernel_density_estimation" /\ W2URaises(data_frame) = "none")
    => /\ scored > 0
          => /\ i = bandwidths
             /\ failed_n = 0
             /\ X_full = FullData
             /\ DOMAIN X_grid \subseteq Values(FullData)
             /\ \A v \in DOMAIN X_grid : X_grid[v] <= Occurrences(FullData, v)
             /\ Total(DOMAIN X_grid, X_grid) = 2000
       /\ (pc = "done" /\ Len(FullData) < 2000)
          => /\ status = "raised"
             /\ scored = 0

C10_Witness ==
    /\ fn = "kernel_density_estimation"
    /\ pc = "done"
    /\ exc = "ValueError"
    /\ i = bandwidths
    /\ Len(X_full) = 1999
    /\ Len(X) >= 2000
    /\ scored = 0

====
